---- MODULE Spec2Model ----
(***************************************************************************)
(* A model of homebridge-roku-tv: the application identity mapper          *)
(* (roku-app-map.ts), the platform's discovery and registration            *)
(* (roku-homebridge-platform.ts) and the accessory's characteristic        *)
(* handlers and polling (roku-homebridge-accessory.ts).                    *)
(*                                                                         *)
(* A JavaScript string is modelled as the sequence of its UTF-16 code      *)
(* units, so that hashCode is computed character by character as the code  *)
(* computes it.  Numbers the code keeps as 32-bit integers are kept as     *)
(* integers in [-2^31, 2^31 - 1]; the 32-bit arithmetic is done on 16-bit  *)
(* halves.                                                                 *)
(***************************************************************************)
EXTENDS Integers, Sequences, FiniteSets, Bags, TLC

VARIABLES
    \* hashCode, one reduce step at a time
    hs, hi, ha, hres,
    \* the platform: cached accessories, discovery, registration
    accessories, ppc, rokuClients, cursor, registered, restored,
    \* one accessory: the device's application list, the index, the inputs
    rawApps, excludedApps, clientApps, mappedApps, services, apc, lookup,
    \* one session: device state, host characteristics, queries in flight,
    \* the characteristic request being handled
    devPower, devActive, hostActive, hostActiveId,
    infoReq, infoResp, activeReq, activeResp, req, rejections, frozen

hashVars == <<hs, hi, ha, hres>>
platVars == <<accessories, ppc, rokuClients, cursor, registered, restored>>
accVars  == <<rawApps, excludedApps, clientApps, mappedApps, services, apc, lookup>>
sessVars == <<devPower, devActive, hostActive, hostActiveId,
              infoReq, infoResp, activeReq, activeResp, req, rejections, frozen>>
vars == <<hashVars, platVars, accVars, sessVars>>

(***************************************************************************)
(* Bounds of the model.                                                    *)
(***************************************************************************)
\* longest string handed to hashCode in SpecHash
MaxStrLen == 5
\* calls of hashCode on the same string in SpecHash
MaxCalls == 2

\* UTF-16 code units used in SpecHash: "0", "A", "B", "a" and the largest
\* code unit, 0xFFFF
CharCodes == {48, 65, 66, 97, 65535}

(***************************************************************************)
(* 32-bit integer arithmetic.                                              *)
(***************************************************************************)
\* 2^16: the base of the two halves of a 32-bit integer
Half == 65536
\* 2^31 - 1 and -2^31, the bounds of a signed 32-bit integer
MaxInt32 == 2147483647
MinInt32 == (-2147483647) - 1

IsInt32(x) == x \in Int /\ MinInt32 <= x /\ x <= MaxInt32

\* The bit pattern of a signed 32-bit integer, as <<high half, low half>>.
Bits(a) ==
    IF a >= 0
    THEN <<a \div Half, a % Half>>
    ELSE LET b == a + MaxInt32 + 1
         IN  <<(b \div Half) + (Half \div 2), b % Half>>

\* ToInt32 of the number hi16 * 2^16 + lo16, for integers hi16 and lo16 of
\* moderate size: the signed 32-bit integer congruent to it modulo 2^32.
ToInt32(hi16, lo16) ==
    LET lo == lo16 % Half
        carry == (lo16 - lo) \div Half
        top == (hi16 + carry) % Half
    IN  IF top >= Half \div 2
        THEN (top - Half) * Half + lo
        ELSE top * Half + lo

\* a << 5: ToInt32(a) shifted left by five bits, as a signed 32-bit integer.
Shl5(a) == ToInt32(Bits(a)[1] * 32, Bits(a)[2] * 32)

\* One step of the reduce of hashCode with the shift taken as a << 4: a slip
\* of the shift width.
HashStepShift4(a, c) ==
    LET s == ToInt32(Bits(a)[1] * 16, Bits(a)[2] * 16)
    IN  ToInt32(Bits(s)[1] - Bits(a)[1], Bits(s)[2] - Bits(a)[2] + c)

\* One step of the reduce of hashCode: a = (a << 5) - a + c; return a & a.
\* The sum is exact in a double, and a & a is ToInt32 of it.
HashStep(a, c) ==
    LET s == Shl5(a)
    IN  ToInt32(Bits(s)[1] - Bits(a)[1], Bits(s)[2] - Bits(a)[2] + c)

RECURSIVE HashFrom(_, _, _)
\* the reduce from position i on; each step's accumulator is a value (b),
\* computed once before the next step uses it
HashFrom(a, s, i) ==
    IF i > Len(s) THEN a
    ELSE CHOOSE r \in {HashFrom(b, s, i + 1) : b \in {HashStep(a, s[i])}} : TRUE

\* hashCode(s): s.split("").reduce(step, 0)
hashCode(s) == HashFrom(0, s, 1)

(***************************************************************************)
(* SpecHash: hashCode run on a string, one reduce step at a time, and      *)
(* called MaxCalls times on the same string.                               *)
(***************************************************************************)
Strings(n) == UNION {[1..k -> CharCodes] : k \in 0..n}

HashIdle == hs = <<>> /\ hi = 1 /\ ha = 0 /\ hres = <<>>

\* the callback of reduce, applied to the next character
ReduceStep ==
    /\ Len(hres) < MaxCalls
    /\ hi <= Len(hs)
    /\ ha' = HashStep(ha, hs[hi])
    /\ hi' = hi + 1
    /\ UNCHANGED <<hs, hres>>

\* reduce has consumed the string: hashCode returns the accumulator
HashReturn ==
    /\ Len(hres) < MaxCalls
    /\ hi > Len(hs)
    /\ hres' = Append(hres, ha)
    /\ hi' = 1
    /\ ha' = 0
    /\ UNCHANGED hs


(***************************************************************************)
(* The application identity mapper (roku-app-map.ts).                      *)
(***************************************************************************)
\* "home.id", the reserved raw id of the synthesized Home entry
homeScreenActiveId == <<104, 111, 109, 101, 46, 105, 100>>

\* what Array.find returns when no element matches
Undefined == [undefined |-> TRUE]

\* the applications a device may report: "12", and "Aa" and "BB", two raw ids
\* with the same hashCode (2112)
Netflix == [id |-> <<49, 50>>, name |-> "Netflix", type |-> "appl", version |-> "5.1"]
Hulu    == [id |-> <<65, 97>>, name |-> "Hulu", type |-> "appl", version |-> "2"]
Plex    == [id |-> <<66, 66>>, name |-> "Plex", type |-> "tvin", version |-> "1"]
DeviceApps == {Netflix, Hulu, Plex}

\* the entry createClientInfoFromClient pushes for the Home screen
HomeApp == [id |-> homeScreenActiveId, name |-> "Home", type |-> "Home", version |-> "1"]

\* most applications a device reports in SpecIndex
MaxApps == 2

AppLists(S, n) == UNION {[1..k -> S] : k \in 0..n}

\* the names the configuration may exclude
ExcludableNames == {"Netflix", "Hulu", "Plex", "Home"}

\* { ...a, rokuAppId: a.id, id: hashCode(a.id) }
MapApp(a) ==
    [id |-> hashCode(a.id), rokuAppId |-> a.id,
     name |-> a.name, type |-> a.type, version |-> a.version]

\* createMappedApps that keeps one entry per numeric id (the first)
createMappedAppsDedup(apps) ==
    LET all == [i \in 1..Len(apps) |-> MapApp(apps[i])]
        RECURSIVE Keep(_)
        Keep(i) ==
            IF i > Len(all) THEN <<>>
            ELSE IF \E j \in 1..(i - 1) : all[j].id = all[i].id
                 THEN Keep(i + 1)
                 ELSE <<all[i]>> \o Keep(i + 1)
    IN  Keep(1)

createMappedApps(apps) == [i \in 1..Len(apps) |-> MapApp(apps[i])]

\* Array.find on the outcomes of the test, element by element: the position
\* of the first element that passes, 0 when none does
FindIndex(passes) ==
    IF \E i \in 1..Len(passes) : passes[i]
    THEN CHOOSE i \in 1..Len(passes) :
            passes[i] /\ \A j \in 1..(i - 1) : ~passes[j]
    ELSE 0

getAppFromRokuId(mapped, identifier) ==
    LET k == FindIndex([i \in 1..Len(mapped) |-> mapped[i].rokuAppId = identifier])
    IN  IF k = 0 THEN Undefined ELSE mapped[k]

getAppFromId(mapped, identifier) ==
    LET k == FindIndex([i \in 1..Len(mapped) |-> mapped[i].id = identifier])
    IN  IF k = 0 THEN Undefined ELSE mapped[k]

getApps(mapped) == mapped

(***************************************************************************)
(* One accessory: createClientInfoFromClient, then the constructor of      *)
(* RokuHomebridgeAccessory, which builds the index and registers one input *)
(* source per application that is not excluded.                            *)
(***************************************************************************)
\* Number.prototype.toString of an integer: its decimal digits, as code units
RECURSIVE Digits(_)
Digits(n) ==
    IF n < 10 THEN <<48 + n>> ELSE Digits(n \div 10) \o <<48 + (n % 10)>>

RECURSIVE NegDigits(_)
NegDigits(n) ==
    LET d == (10 - (n % 10)) % 10
        rest == (n + d) \div 10
    IN  IF rest = 0 THEN <<48 + d>> ELSE NegDigits(rest) \o <<48 + d>>

NumberToString(n) == IF n >= 0 THEN Digits(n) ELSE <<45>> \o NegDigits(n)

\* apps = getApps().filter((x) => !excludedApps.includes(x.name))
FilteredApps(mapped, excluded) ==
    LET Test(x) == x.name \notin excluded IN SelectSeq(getApps(mapped), Test)

\* accessory.getService(name): the position of the first service of that
\* display name, 0 when there is none
getService(svcs, name) ==
    FindIndex([k \in 1..Len(svcs) |-> svcs[k].displayName = name])

\* the characteristics set on an input source, lines 186-195
ConfiguredInput(service, app) ==
    [service EXCEPT
        !.Identifier = app.id,
        !.ConfiguredName = app.name,
        !.IsConfigured = TRUE,
        !.InputSourceType = IF app.type = "Home" THEN "HOME_SCREEN" ELSE "HDMI",
        !.linked = TRUE]

\* new Service.InputSource(name, subtype), before its characteristics are set
NewInput(name, subtype) ==
    [displayName |-> name, subtype |-> subtype, Identifier |-> 0,
     ConfiguredName |-> name, IsConfigured |-> FALSE,
     InputSourceType |-> "OTHER", linked |-> FALSE]

\* apps.forEach(...) from the i-th application on: the accessory's input
\* services afterwards, and whether addService threw (an accessory holds no
\* two services of one type with the same subtype), which ends the loop
RECURSIVE AddInputs(_, _, _)
AddInputs(svcs, apps, i) ==
    IF i > Len(apps) THEN [services |-> svcs, threw |-> FALSE]
    ELSE LET app == apps[i]
             k == getService(svcs, app.name)
             subtype == NumberToString(app.id)
         IN  IF k # 0
             THEN AddInputs([svcs EXCEPT ![k] = ConfiguredInput(svcs[k], app)],
                            apps, i + 1)
             ELSE IF \E j \in 1..Len(svcs) : svcs[j].subtype = subtype
                  THEN [services |-> svcs, threw |-> TRUE]
                  ELSE AddInputs(Append(svcs, ConfiguredInput(NewInput(app.name, subtype), app)),
                                 apps, i + 1)

\* createClientInfoFromClient without the push of the Home entry
CreateClientInfoNoHome ==
    /\ apc = "start"
    /\ clientApps' = rawApps
    /\ apc' = "info"
    /\ UNCHANGED <<rawApps, excludedApps, mappedApps, services, lookup>>

\* createClientInfoFromClient: the device's applications, then the Home entry
CreateClientInfoFromClient ==
    /\ apc = "start"
    /\ clientApps' = Append(rawApps, HomeApp)
    /\ apc' = "info"
    /\ UNCHANGED <<rawApps, excludedApps, mappedApps, services, lookup>>

\* the constructor, line 48: this.applicationMap = new RokuAppMap(clientInfo.apps)
NewRokuAppMap ==
    /\ apc = "info"
    /\ mappedApps' = createMappedApps(clientApps)
    /\ apc' = "built"
    /\ UNCHANGED <<rawApps, excludedApps, clientApps, services, lookup>>

\* the constructor, configureTelevisionApplicationInputs
ConfigureTelevisionApplicationInputs ==
    /\ apc = "built"
    /\ LET r == AddInputs(services, FilteredApps(mappedApps, excludedApps), 1)
       IN  /\ services' = r.services
           /\ apc' = IF r.threw THEN "failed" ELSE "inputs"
    /\ UNCHANGED <<rawApps, excludedApps, clientApps, mappedApps, lookup>>

Built == apc \in {"built", "inputs", "ready", "failed"}

\* a call of getAppFromId, as a handler makes it
LookupById(n) ==
    /\ Built
    /\ lookup' = <<"id", n, getAppFromId(mappedApps, n)>>
    /\ UNCHANGED <<rawApps, excludedApps, clientApps, mappedApps, services, apc>>

\* a call of getAppFromRokuId, as a handler or a poll makes it
LookupByRokuId(s) ==
    /\ Built
    /\ lookup' = <<"rokuId", s, getAppFromRokuId(mappedApps, s)>>
    /\ UNCHANGED <<rawApps, excludedApps, clientApps, mappedApps, services, apc>>

\* the raw ids and the numeric ids a caller may ask for
RawIds == {a.id : a \in DeviceApps} \cup {homeScreenActiveId}
\* "null": what rokuClient.active() resolves with when no application is active
Null == <<-1>>
NumericIds == {hashCode(s) : s \in RawIds} \cup {0}

\* SpecHash leaves the platform, the accessory and the session as they are
\* before anything has run.
PlatformIdle ==
    /\ accessories = <<>> /\ ppc = "off" /\ rokuClients = <<>>
    /\ cursor = 1 /\ registered = <<>> /\ restored = <<>>

AccessoryIdle ==
    /\ rawApps = <<>> /\ excludedApps = {} /\ clientApps = <<>>
    /\ mappedApps = <<>> /\ services = <<>> /\ apc = "off"
    /\ lookup = <<>>

\* no characteristic request is being handled
NoRequest == [kind |-> "none", arg |-> 0, stage |-> "idle", callbacks |-> 0, threw |-> "no"]

\* a characteristic value: a number, or a string
Num(n) == <<"number", n>>
Str(s) == <<"string", s>>

SessionIdle ==
    /\ devPower = FALSE /\ devActive = Null
    /\ hostActive = 0 /\ hostActiveId = Num(0)
    /\ infoReq = 0 /\ infoResp = EmptyBag
    /\ activeReq = 0 /\ activeResp = EmptyBag
    /\ req = NoRequest /\ rejections = {} /\ frozen = FALSE

InitHash ==
    /\ hs \in Strings(MaxStrLen)
    /\ hi = 1 /\ ha = 0 /\ hres = <<>>
    /\ PlatformIdle /\ AccessoryIdle /\ SessionIdle

NextHash ==
    \/ ReduceStep /\ UNCHANGED <<platVars, accVars, sessVars>>
    \/ HashReturn /\ UNCHANGED <<platVars, accVars, sessVars>>

SpecHash == InitHash /\ [][NextHash]_vars

(***************************************************************************)
(* The reference rolling hash: h := 31 * h + c, wrapped to a signed 32-bit *)
(* integer, from h = 0.                                                    *)
(***************************************************************************)
RefStep(h, c) == ToInt32(31 * Bits(h)[1], 31 * Bits(h)[2] + c)

RECURSIVE RefHash(_)
RefHash(s) ==
    IF s = <<>> THEN 0 ELSE RefStep(RefHash(SubSeq(s, 1, Len(s) - 1)), s[Len(s)])

\* C5: every call of hashCode on a string returns the same integer, the
\* reference rolling hash of the string: a signed 32-bit integer, 0 for the
\* empty string; the accumulator of a running call is the reference hash of
\* the characters consumed so far.
C5_HashIsReferenceHash ==
    /\ \A k \in 1..Len(hres) :
          /\ hres[k] = RefHash(hs)
          /\ IsInt32(hres[k])
          /\ (hs = <<>> => hres[k] = 0)
          /\ hres[k] = hres[1]
    /\ ha = RefHash(SubSeq(hs, 1, hi - 1))

\* hashCode has returned MaxCalls times on a string whose hash overflowed 32
\* bits and came out negative.
C5_Witness ==
    /\ Len(hres) = MaxCalls
    /\ Len(hs) = MaxStrLen
    /\ hres[1] < 0


(***************************************************************************)
(* SpecIndex: one fresh accessory built for every application list and     *)
(* every exclusion set, and lookups in its index.                          *)
(***************************************************************************)
InitIndex ==
    /\ HashIdle /\ PlatformIdle /\ SessionIdle
    /\ rawApps \in AppLists(DeviceApps, MaxApps)
    /\ excludedApps \in SUBSET ExcludableNames
    /\ clientApps = <<>> /\ mappedApps = <<>> /\ services = <<>>
    /\ apc = "start" /\ lookup = <<>>

NextIndex ==
    \/ CreateClientInfoFromClient /\ UNCHANGED <<hashVars, platVars, sessVars>>
    \/ NewRokuAppMap /\ UNCHANGED <<hashVars, platVars, sessVars>>
    \/ ConfigureTelevisionApplicationInputs /\ UNCHANGED <<hashVars, platVars, sessVars>>
    \/ \E n \in NumericIds : LookupById(n) /\ UNCHANGED <<hashVars, platVars, sessVars>>
    \/ \E s \in RawIds : LookupByRokuId(s) /\ UNCHANGED <<hashVars, platVars, sessVars>>

SpecIndex == InitIndex /\ [][NextIndex]_vars

\* C1: every entry of the index is what a lookup by its numeric id returns
\* and what a lookup by its raw id returns.
C1_RoundTrip ==
    Built =>
        \A i \in 1..Len(mappedApps) :
            /\ getAppFromId(mappedApps, mappedApps[i].id) = mappedApps[i]
            /\ getAppFromRokuId(mappedApps, mappedApps[i].rokuAppId) = mappedApps[i]

\* the entry the constructor's index holds for the Home screen
HomeEntry ==
    [id |-> RefHash(homeScreenActiveId), rokuAppId |-> homeScreenActiveId,
     name |-> "Home", type |-> "Home", version |-> "1"]

\* C2: once the index is built, a lookup by the home sentinel raw id returns
\* the synthesized Home entry, the last entry of the index, whatever the
\* device reported.
C2_HomeEntryPresent ==
    /\ Built =>
          /\ getAppFromRokuId(mappedApps, homeScreenActiveId) = HomeEntry
          /\ mappedApps[Len(mappedApps)] = HomeEntry
    /\ (lookup # <<>> /\ lookup[1] = "rokuId" /\ lookup[2] = homeScreenActiveId)
          => lookup[3] = HomeEntry

\* the device reported no application and a lookup by the sentinel was served
C2_Witness ==
    /\ rawApps = <<>>
    /\ lookup = <<"rokuId", homeScreenActiveId, HomeEntry>>

\* C3: the index of a device that reports n records holds n + 1 entries: the
\* n records in their order, each with rokuAppId, name, type and version
\* copied and the numeric id derived from the raw id, then the Home entry.
C3_Completeness ==
    Built =>
        /\ Len(mappedApps) = Len(rawApps) + 1
        /\ \A i \in 1..Len(rawApps) :
              /\ mappedApps[i].rokuAppId = rawApps[i].id
              /\ mappedApps[i].name = rawApps[i].name
              /\ mappedApps[i].type = rawApps[i].type
              /\ mappedApps[i].version = rawApps[i].version
              /\ mappedApps[i].id = RefHash(rawApps[i].id)
        /\ mappedApps[Len(rawApps) + 1] = HomeEntry

\* an index built from two records whose raw ids differ and hash alike
C3_Witness ==
    /\ Built
    /\ Len(rawApps) = 2
    /\ rawApps[1].id # rawApps[2].id
    /\ mappedApps[1].id = mappedApps[2].id
    /\ Len(mappedApps) = 3

\* C6: after the inputs are configured, every entry of the index whose name
\* is not excluded has an input source of its name and numeric id, every
\* input source belongs to such an entry, and the input sources follow the
\* index order (entries equal in every field share one input source).
C6_ExclusionFiltering ==
    apc \in {"inputs", "failed"} =>
        LET Wanted(x) == x.name \notin excludedApps
            wanted == SelectSeq(mappedApps, Wanted)
            Of(s, x) == s.displayName = x.name /\ s.Identifier = x.id
        IN  /\ \A i \in 1..Len(wanted) :
                  \E k \in 1..Len(services) : Of(services[k], wanted[i])
            /\ \A k \in 1..Len(services) :
                  \E i \in 1..Len(wanted) : Of(services[k], wanted[i])
            /\ \A k, l \in 1..Len(services) :
                  k < l => \E i, j \in 1..Len(wanted) :
                              /\ i < j
                              /\ Of(services[k], wanted[i])
                              /\ Of(services[l], wanted[j])


(***************************************************************************)
(* SpecPlatform: the platform restores cached accessories, then discovers  *)
(* the devices and creates one accessory per client found.                 *)
(***************************************************************************)
\* the device ids (info.deviceId) of the Roku devices on the network
DeviceIds == {"d1", "d2", "d3"}

\* most accessories Homebridge restores from its cache
MaxCached == 2
\* most clients discoverAll returns
MaxClients == 3

\* api.hap.uuid.generate(deviceId): a UUID derived from the device id alone
uuidGenerate(deviceId) == <<"uuid", deviceId>>

Range(seq) == {seq[i] : i \in 1..Len(seq)}

InitPlatform ==
    /\ HashIdle /\ AccessoryIdle /\ SessionIdle
    /\ accessories = <<>> /\ ppc = "restoring" /\ rokuClients = <<>>
    /\ cursor = 1 /\ registered = <<>> /\ restored = <<>>

\* configureAccessory: Homebridge hands over a cached accessory (its cache
\* holds one accessory per UUID)
ConfigureAccessory(uuid) ==
    /\ ppc = "restoring"
    /\ Len(accessories) < MaxCached
    /\ uuid \notin Range(accessories)
    /\ accessories' = Append(accessories, uuid)
    /\ UNCHANGED <<ppc, rokuClients, cursor, registered, restored>>

\* didFinishLaunching, discoverDevices lines 86-93: discoverAll and the
\* info and apps of every client have resolved; clients holds the device id
\* each client reported
DiscoverDevices(clients) ==
    /\ ppc = "restoring"
    /\ rokuClients' = clients
    /\ cursor' = 1
    /\ ppc' = "creating"
    /\ UNCHANGED <<accessories, registered, restored>>

\* discoverAll, or the info or apps of one client, rejected: discoverDevices
\* rejects and the rejection is logged
DiscoverRejects ==
    /\ ppc = "restoring"
    /\ ppc' = "done"
    /\ UNCHANGED <<accessories, rokuClients, cursor, registered, restored>>

\* createAccessoryFromRokuClientInfo for the next client of the forEach:
\* restoreExistingAccessoryFromClientInfo when a cached accessory has the
\* UUID, createNewAccessoryFromClientInfo (which registers) otherwise
CreateAccessoryFromRokuClientInfo ==
    /\ ppc = "creating"
    /\ cursor <= Len(rokuClients)
    /\ LET homebridgeAccessoryId == uuidGenerate(rokuClients[cursor])
       IN  IF homebridgeAccessoryId \in Range(accessories)
           THEN /\ restored' = Append(restored, homebridgeAccessoryId)
                /\ UNCHANGED registered
           ELSE /\ registered' = Append(registered, homebridgeAccessoryId)
                /\ UNCHANGED restored
    /\ cursor' = cursor + 1
    /\ UNCHANGED <<ppc, rokuClients, accessories>>

\* new RokuHomebridgeAccessory(...) throws (its constructor adds services):
\* the forEach ends before the accessory is registered
AccessoryConstructorThrows ==
    /\ ppc = "creating"
    /\ cursor <= Len(rokuClients)
    /\ ppc' = "done"
    /\ UNCHANGED <<accessories, rokuClients, cursor, registered, restored>>

\* the forEach has gone through every client
DiscoverDevicesReturns ==
    /\ ppc = "creating"
    /\ cursor > Len(rokuClients)
    /\ ppc' = "done"
    /\ UNCHANGED <<accessories, rokuClients, cursor, registered, restored>>

NextPlatform ==
    \/ \E d \in DeviceIds :
          ConfigureAccessory(uuidGenerate(d)) /\ UNCHANGED <<hashVars, accVars, sessVars>>
    \/ \E clients \in UNION {[1..k -> DeviceIds] : k \in 0..MaxClients} :
          DiscoverDevices(clients) /\ UNCHANGED <<hashVars, accVars, sessVars>>
    \/ DiscoverRejects /\ UNCHANGED <<hashVars, accVars, sessVars>>
    \/ CreateAccessoryFromRokuClientInfo /\ UNCHANGED <<hashVars, accVars, sessVars>>
    \/ AccessoryConstructorThrows /\ UNCHANGED <<hashVars, accVars, sessVars>>
    \/ DiscoverDevicesReturns /\ UNCHANGED <<hashVars, accVars, sessVars>>

SpecPlatform == InitPlatform /\ [][NextPlatform]_vars

\* C7: no accessory restored from the cache is registered, and no UUID is
\* registered twice.
C7_RegisteredOnce ==
    \A i \in 1..Len(registered) :
        /\ registered[i] \notin Range(accessories)
        /\ \A j \in 1..Len(registered) : j # i => registered[j] # registered[i]


(***************************************************************************)
(* Spec: one accessory's session.  The accessory is constructed, then the  *)
(* host invokes its characteristic handlers, the timer polls the device,   *)
(* and the device's state changes under the user's remote control.         *)
(***************************************************************************)
\* the applications the device reports when the session starts are among
\* SessionApps; it may later run any of RunnableApps (Hulu is installed
\* after the session started, if at all)
SessionApps == {Netflix}
RunnableApps == {Netflix, Hulu}
\* most applications the device reports when the session starts
MaxSessionApps == 1
\* most queries of one kind (info, active) in flight for updates at a time
MaxInFlight == 1

\* what rokuClient.active() may resolve with
ActiveIds == {a.id : a \in RunnableApps} \cup {Null}
\* the identifiers the host may write to ActiveIdentifier (the host keeps
\* the input sources of earlier sessions)
HostIdentifiers == {hashCode(a.id) : a \in RunnableApps} \cup {hashCode(homeScreenActiveId)}
\* Characteristic.Active.ACTIVE and INACTIVE
ACTIVE == 1
INACTIVE == 0
\* the values of RemoteKey the switch of remoteKeyToKeyCommandAndName knows
KnownRemoteKeys ==
    {"REWIND", "FAST_FORWARD", "NEXT_TRACK", "PREVIOUS_TRACK", "ARROW_UP",
     "ARROW_DOWN", "ARROW_LEFT", "ARROW_RIGHT", "SELECT", "BACK", "EXIT",
     "PLAY_PAUSE", "INFORMATION"}
\* the values the host may write to RemoteKey
RemoteKeys == KnownRemoteKeys \cup {"OTHER"}

InitSession ==
    /\ HashIdle /\ PlatformIdle
    /\ rawApps \in AppLists(SessionApps, MaxSessionApps)
    /\ excludedApps = {}
    /\ clientApps = <<>> /\ mappedApps = <<>> /\ services = <<>>
    /\ apc = "start" /\ lookup = <<>>
    /\ SessionIdle

Ready == apc = "ready"

\* room, within MaxInFlight, for the two queries of one update
CanUpdate ==
    /\ infoReq + BagCardinality(infoResp) < MaxInFlight
    /\ activeReq + BagCardinality(activeResp) < MaxInFlight

\* updatePowerAndActiveApplication, up to its return: client.info() and
\* client.active() are sent, their then-callbacks run when they resolve
UpdatePowerAndActiveApplication ==
    /\ infoReq' = infoReq + 1
    /\ activeReq' = activeReq + 1

\* the rest of the constructor: the handlers are registered, the first
\* update is sent (line 159) and the timer is started (line 56)
FinishConstruction ==
    /\ apc = "inputs"
    /\ apc' = "ready"
    /\ UpdatePowerAndActiveApplication
    /\ UNCHANGED <<rawApps, excludedApps, clientApps, mappedApps, services, lookup>>
    /\ UNCHANGED <<devPower, devActive, hostActive, hostActiveId,
                   infoResp, activeResp, req, rejections, frozen>>

\* startPolling: the timer fires
PollTick ==
    /\ Ready
    /\ CanUpdate
    /\ UpdatePowerAndActiveApplication
    /\ UNCHANGED accVars
    /\ UNCHANGED <<devPower, devActive, hostActive, hostActiveId,
                   infoResp, activeResp, req, rejections, frozen>>

\* the device answers a client.info() with its power mode of the moment
InfoResolves ==
    /\ infoReq > 0
    /\ infoReq' = infoReq - 1
    /\ infoResp' = infoResp (+) SetToBag({devPower})
    /\ UNCHANGED accVars
    /\ UNCHANGED <<devPower, devActive, hostActive, hostActiveId,
                   activeReq, activeResp, req, rejections, frozen>>

\* a client.info() of an update fails: its then-callback never runs
InfoRejects ==
    /\ ~frozen
    /\ infoReq > 0
    /\ infoReq' = infoReq - 1
    /\ UNCHANGED accVars
    /\ UNCHANGED <<devPower, devActive, hostActive, hostActiveId, infoResp,
                   activeReq, activeResp, req, rejections, frozen>>

\* updatePowerAndActiveApplication, the then-callback of info (lines 351-369)
InfoThen(isOn) ==
    /\ BagIn(isOn, infoResp)
    /\ infoResp' = infoResp (-) SetToBag({isOn})
    /\ LET isAlreadyON == hostActive = ACTIVE
       IN  hostActive' = IF isOn = isAlreadyON THEN hostActive
                         ELSE IF isOn THEN ACTIVE ELSE INACTIVE
    /\ UNCHANGED accVars
    /\ UNCHANGED <<devPower, devActive, hostActiveId, infoReq,
                   activeReq, activeResp, req, rejections, frozen>>

\* the device answers a client.active() with its active application of the
\* moment
ActiveResolves ==
    /\ activeReq > 0
    /\ activeReq' = activeReq - 1
    /\ activeResp' = activeResp (+) SetToBag({devActive})
    /\ UNCHANGED accVars
    /\ UNCHANGED <<devPower, devActive, hostActive, hostActiveId,
                   infoReq, infoResp, req, rejections, frozen>>

\* a client.active() of an update fails: its then-callback never runs
ActiveRejects ==
    /\ ~frozen
    /\ activeReq > 0
    /\ activeReq' = activeReq - 1
    /\ UNCHANGED accVars
    /\ UNCHANGED <<devPower, devActive, hostActive, hostActiveId, activeResp,
                   infoReq, infoResp, req, rejections, frozen>>

\* the then-callback of active that adds an application it does not know to
\* the index
ActiveThenRefreshing(app) ==
    /\ BagIn(app, activeResp)
    /\ activeResp' = activeResp (-) SetToBag({app})
    /\ LET rokuId == IF app # Null THEN app ELSE homeScreenActiveId
           mappedApp == getAppFromRokuId(mappedApps, rokuId)
           added == [id |-> hashCode(rokuId), rokuAppId |-> rokuId,
                     name |-> "", type |-> "", version |-> ""]
       IN  IF mappedApp = Undefined
           THEN /\ mappedApps' = Append(mappedApps, added)
                /\ hostActiveId' = Num(added.id)
           ELSE /\ hostActiveId' = Num(mappedApp.id)
                /\ UNCHANGED mappedApps
    /\ UNCHANGED <<rawApps, excludedApps, clientApps, services, apc, lookup>>
    /\ UNCHANGED <<devPower, devActive, hostActive, infoReq, infoResp,
                   activeReq, req, rejections, frozen>>

\* updatePowerAndActiveApplication, the then-callback of active (lines
\* 371-387): mappedApp.name throws a TypeError when the lookup found nothing,
\* before ActiveIdentifier is updated
ActiveThen(app) ==
    /\ BagIn(app, activeResp)
    /\ activeResp' = activeResp (-) SetToBag({app})
    /\ LET rokuId == IF app # Null THEN app ELSE homeScreenActiveId
           mappedApp == getAppFromRokuId(mappedApps, rokuId)
       IN  IF mappedApp = Undefined
           THEN /\ rejections' = rejections \cup {"poll"}
                /\ UNCHANGED hostActiveId
           ELSE /\ hostActiveId' = Num(mappedApp.id)
                /\ UNCHANGED rejections
    /\ UNCHANGED accVars
    /\ UNCHANGED <<devPower, devActive, hostActive, infoReq, infoResp,
                   activeReq, req, frozen>>

\* the user turns the device on or off, or starts or leaves an application
DeviceChanges(power, app) ==
    /\ ~frozen
    /\ apc # "off"
    /\ <<power, app>> # <<devPower, devActive>>
    /\ devPower' = power
    /\ devActive' = app
    /\ UNCHANGED accVars
    /\ UNCHANGED <<hostActive, hostActiveId, infoReq, infoResp,
                   activeReq, activeResp, req, rejections, frozen>>

(***************************************************************************)
(* The characteristic handlers.  req is the request being handled: its     *)
(* kind and value, whether the handler is suspended in an await or has     *)
(* ended, how often it has invoked the host's callback, and whether it     *)
(* ended by throwing ("TypeError", or "rejected" when an awaited device    *)
(* call failed).  After a get the characteristic holds the value the       *)
(* callback passed, after a set the value the host wrote.                  *)
(***************************************************************************)
Awaiting(kind) == req.kind = kind /\ req.stage = "await"

Suspended(kind, arg) ==
    [kind |-> kind, arg |-> arg, stage |-> "await", callbacks |-> 0, threw |-> "no"]

\* the handler has ended, having called callback(null, ...) once
Called == [req EXCEPT !.stage = "done", !.callbacks = req.callbacks + 1]

\* the async handler has ended by throwing: its promise rejects, unhandled
Threw(error) == [req EXCEPT !.stage = "done", !.threw = error]

\* Active get (line 202): the handler awaits fetchTelevisionActiveState
GetActive ==
    /\ Ready /\ req.stage = "idle"
    /\ req' = Suspended("getActive", 0)
    /\ UNCHANGED accVars
    /\ UNCHANGED <<devPower, devActive, hostActive, hostActiveId, infoReq, infoResp,
                   activeReq, activeResp, rejections, frozen>>

\* isTelevisionOn has its info: callback(null, activeState)
GetActiveResolves ==
    /\ Awaiting("getActive")
    /\ req' = Called
    /\ hostActive' = IF devPower THEN ACTIVE ELSE INACTIVE
    /\ UNCHANGED accVars
    /\ UNCHANGED <<devPower, devActive, hostActiveId, infoReq, infoResp,
                   activeReq, activeResp, rejections, frozen>>

\* Active set (line 206): the handler awaits the power keypress
SetActive(onOrOff) ==
    /\ Ready /\ req.stage = "idle"
    /\ req' = Suspended("setActive", onOrOff)
    /\ UNCHANGED accVars
    /\ UNCHANGED <<devPower, devActive, hostActive, hostActiveId, infoReq, infoResp,
                   activeReq, activeResp, rejections, frozen>>

\* the keypress is delivered: the device turns on or off, the handler sends
\* an update and calls callback(null)
SetActiveResolves ==
    /\ Awaiting("setActive")
    /\ CanUpdate
    /\ devPower' = (req.arg = ACTIVE)
    /\ UpdatePowerAndActiveApplication
    /\ req' = Called
    /\ hostActive' = req.arg
    /\ UNCHANGED accVars
    /\ UNCHANGED <<devActive, hostActiveId, infoResp, activeResp, rejections, frozen>>

\* ActiveIdentifier get (line 225): the handler awaits client.active()
GetActiveIdentifier ==
    /\ Ready /\ req.stage = "idle"
    /\ req' = Suspended("getActiveIdentifier", 0)
    /\ UNCHANGED accVars
    /\ UNCHANGED <<devPower, devActive, hostActive, hostActiveId, infoReq, infoResp,
                   activeReq, activeResp, rejections, frozen>>

\* client.active() has resolved (lines 228-240): callback(null,
\* homeScreenActiveId) when no application is active; otherwise app.name is
\* read before app is tested, which throws when the lookup found nothing
GetActiveIdentifierResolves ==
    /\ Awaiting("getActiveIdentifier")
    /\ LET rokuApp == devActive
           app == getAppFromRokuId(mappedApps, rokuApp)
       IN  IF rokuApp = Null
           THEN /\ req' = Called
                /\ hostActiveId' = Str(homeScreenActiveId)
           ELSE IF app = Undefined
                THEN /\ req' = Threw("TypeError")
                     /\ UNCHANGED hostActiveId
                ELSE /\ req' = Called
                     /\ hostActiveId' = Num(app.id)
    /\ UNCHANGED accVars
    /\ UNCHANGED <<devPower, devActive, hostActive, infoReq, infoResp,
                   activeReq, activeResp, rejections, frozen>>

\* ActiveIdentifier set (lines 242-256), up to its await: app.name throws
\* when the lookup found nothing; otherwise the handler awaits the Home
\* keypress or the launch
SetActiveIdentifier(identifier) ==
    /\ Ready /\ req.stage = "idle"
    /\ LET app == getAppFromId(mappedApps, identifier)
       IN  req' = IF app = Undefined
                  THEN [Suspended("setActiveIdentifier", identifier) EXCEPT
                           !.stage = "done", !.threw = "TypeError"]
                  ELSE Suspended("setActiveIdentifier", identifier)
    /\ UNCHANGED accVars
    /\ UNCHANGED <<devPower, devActive, hostActive, hostActiveId, infoReq, infoResp,
                   activeReq, activeResp, rejections, frozen>>

\* the Home keypress or the launch succeeded: callback(null)
SetActiveIdentifierResolves ==
    /\ Awaiting("setActiveIdentifier")
    /\ LET app == getAppFromId(mappedApps, req.arg)
       IN  devActive' = IF app.rokuAppId = homeScreenActiveId THEN Null
                        ELSE app.rokuAppId
    /\ req' = Called
    /\ hostActiveId' = Num(req.arg)
    /\ UNCHANGED accVars
    /\ UNCHANGED <<devPower, hostActive, infoReq, infoResp,
                   activeReq, activeResp, rejections, frozen>>

\* client.launch rejected (lines 257-260): the error is caught, an update is
\* sent, and callback(null) is called
LaunchRejects ==
    /\ Awaiting("setActiveIdentifier")
    /\ getAppFromId(mappedApps, req.arg).rokuAppId # homeScreenActiveId
    /\ CanUpdate
    /\ UpdatePowerAndActiveApplication
    /\ req' = Called
    /\ hostActiveId' = Num(req.arg)
    /\ UNCHANGED accVars
    /\ UNCHANGED <<devPower, devActive, hostActive, infoResp, activeResp,
                   rejections, frozen>>

\* a device call a handler awaits outside a try rejected (info of Active
\* get, the keypress of Active set, active of ActiveIdentifier get, the Home
\* keypress of ActiveIdentifier set): the handler throws
AwaitRejects ==
    /\ req.stage = "await"
    /\ \/ req.kind \in {"getActive", "setActive", "getActiveIdentifier"}
       \/ /\ req.kind = "setActiveIdentifier"
          /\ getAppFromId(mappedApps, req.arg).rokuAppId = homeScreenActiveId
    /\ req' = Threw("rejected")
    /\ UNCHANGED accVars
    /\ UNCHANGED <<devPower, devActive, hostActive, hostActiveId, infoReq, infoResp,
                   activeReq, activeResp, rejections, frozen>>

\* remoteKeyToKeyCommandAndName: the name of the key command, or "undefined"
remoteKeyToKeyCommandAndName(remoteKey) ==
    CASE remoteKey = "REWIND" -> "REVERSE"
      [] remoteKey = "FAST_FORWARD" -> "FORWARD"
      [] remoteKey = "NEXT_TRACK" -> "RIGHT"
      [] remoteKey = "PREVIOUS_TRACK" -> "LEFT"
      [] remoteKey = "ARROW_UP" -> "UP"
      [] remoteKey = "ARROW_DOWN" -> "DOWN"
      [] remoteKey = "ARROW_LEFT" -> "LEFT"
      [] remoteKey = "ARROW_RIGHT" -> "RIGHT"
      [] remoteKey = "SELECT" -> "SELECT"
      [] remoteKey = "BACK" -> "BACK"
      [] remoteKey = "EXIT" -> "HOME"
      [] remoteKey = "PLAY_PAUSE" -> "PLAY"
      [] remoteKey = "INFORMATION" -> "INFO"
      [] OTHER -> "undefined"

\* RemoteKey set (lines 270-286): the keypress is sent and not awaited, then
\* callback(null); delivered is whether the keypress reaches the device, where
\* the Home key leaves the active application
SetRemoteKey(newValue, delivered) ==
    /\ Ready /\ req.stage = "idle"
    /\ LET keyAndName == remoteKeyToKeyCommandAndName(newValue)
       IN  devActive' = IF keyAndName = "HOME" /\ delivered THEN Null ELSE devActive
    /\ req' = [kind |-> "setRemoteKey", arg |-> 0, stage |-> "done",
               callbacks |-> 1, threw |-> "no"]
    /\ UNCHANGED accVars
    /\ UNCHANGED <<devPower, hostActive, hostActiveId, infoReq, infoResp,
                   activeReq, activeResp, rejections, frozen>>

\* VolumeSelector set (lines 121-131): volumeUp or volumeDown is sent and not
\* awaited, then callback(null)
SetVolumeSelector(selector) ==
    /\ Ready /\ req.stage = "idle"
    /\ req' = [kind |-> "setVolumeSelector", arg |-> 0, stage |-> "done",
               callbacks |-> 1, threw |-> "no"]
    /\ UNCHANGED accVars
    /\ UNCHANGED <<devPower, devActive, hostActive, hostActiveId, infoReq, infoResp,
                   activeReq, activeResp, rejections, frozen>>

\* Mute set (lines 135-140): volumeMute is sent and not awaited, then
\* callback(null)
SetMute(value) ==
    /\ Ready /\ req.stage = "idle"
    /\ req' = [kind |-> "setMute", arg |-> 0, stage |-> "done",
               callbacks |-> 1, threw |-> "no"]
    /\ UNCHANGED accVars
    /\ UNCHANGED <<devPower, devActive, hostActive, hostActiveId, infoReq, infoResp,
                   activeReq, activeResp, rejections, frozen>>

\* the host is done with the request (answered, or timed out waiting)
RequestEnds ==
    /\ req.stage = "done"
    /\ req' = NoRequest
    /\ UNCHANGED accVars
    /\ UNCHANGED <<devPower, devActive, hostActive, hostActiveId, infoReq, infoResp,
                   activeReq, activeResp, rejections, frozen>>

\* a step of the session leaves hashCode's run and the platform alone
SessionFrame == UNCHANGED <<hashVars, platVars>>

Next ==
    \/ CreateClientInfoFromClient /\ UNCHANGED sessVars /\ SessionFrame
    \/ NewRokuAppMap /\ UNCHANGED sessVars /\ SessionFrame
    \/ ConfigureTelevisionApplicationInputs /\ UNCHANGED sessVars /\ SessionFrame
    \/ FinishConstruction /\ SessionFrame
    \/ PollTick /\ SessionFrame
    \/ InfoResolves /\ SessionFrame
    \/ InfoRejects /\ SessionFrame
    \/ \E isOn \in BOOLEAN : InfoThen(isOn) /\ SessionFrame
    \/ ActiveResolves /\ SessionFrame
    \/ ActiveRejects /\ SessionFrame
    \/ \E app \in ActiveIds : ActiveThen(app) /\ SessionFrame
    \/ \E power \in BOOLEAN, app \in ActiveIds :
          DeviceChanges(power, app) /\ SessionFrame
    \/ GetActive /\ SessionFrame
    \/ GetActiveResolves /\ SessionFrame
    \/ \E onOrOff \in {ACTIVE, INACTIVE} : SetActive(onOrOff) /\ SessionFrame
    \/ SetActiveResolves /\ SessionFrame
    \/ GetActiveIdentifier /\ SessionFrame
    \/ GetActiveIdentifierResolves /\ SessionFrame
    \/ \E identifier \in HostIdentifiers :
          SetActiveIdentifier(identifier) /\ SessionFrame
    \/ SetActiveIdentifierResolves /\ SessionFrame
    \/ LaunchRejects /\ SessionFrame
    \/ AwaitRejects /\ SessionFrame
    \/ \E key \in RemoteKeys, delivered \in BOOLEAN :
          SetRemoteKey(key, delivered) /\ SessionFrame
    \/ \E selector \in {0, 1} : SetVolumeSelector(selector) /\ SessionFrame
    \/ \E value \in BOOLEAN : SetMute(value) /\ SessionFrame
    \/ RequestEnds /\ SessionFrame

Spec == InitSession /\ [][Next]_vars


\* C4: no handler and no poll update ends in a TypeError for an identifier
\* or an active application that the index does not hold.
C4_NotFoundHandled ==
    /\ req.threw # "TypeError"
    /\ "poll" \notin rejections

\* something has been served from the accessory: an input registered, a
\* lookup, a characteristic request, a query of an update or its outcome
Served ==
    \/ services # <<>>
    \/ lookup # <<>>
    \/ req.kind # "none"
    \/ infoReq + activeReq > 0
    \/ infoResp # EmptyBag
    \/ activeResp # EmptyBag
    \/ rejections # {}
    \/ hostActiveId # Num(0)

\* C8: nothing is served before the index is built, and once it is built no
\* step (input registration, handler, poll, lookup) changes it.
C8_BuildOnceImmutable ==
    [][/\ Served' => Built'
       /\ Built => (Built' /\ mappedApps' = mappedApps)]_vars

\* after the build the inputs were registered, a poll met an application the
\* index does not hold, and an ActiveIdentifier set was served
C8_Witness ==
    /\ Built
    /\ services # <<>>
    /\ "poll" \in rejections
    /\ req.kind = "setActiveIdentifier"
    /\ req.stage = "done"
    /\ req.callbacks = 1
    /\ Len(mappedApps) = 2

\* C10: a handler that has ended has invoked the host's callback exactly
\* once.
C10_CallbackOnce ==
    req.stage = "done" => req.callbacks = 1

\* the numeric ids of the entries of the index, as characteristic values
IndexIds == {Num(mappedApps[i].id) : i \in 1..Len(mappedApps)}

\* the step in which the ActiveIdentifier get handler calls back with a value
GetReports ==
    /\ Awaiting("getActiveIdentifier")
    /\ req'.stage = "done"
    /\ req'.callbacks = req.callbacks + 1

\* the step in which the then-callback of a poll's client.active() updates
\* ActiveIdentifier: it consumes an answer whose application the index holds
PollReports ==
    /\ activeReq' = activeReq
    /\ \E a \in ActiveIds :
          /\ BagIn(a, activeResp)
          /\ activeResp' = activeResp (-) SetToBag({a})
          /\ getAppFromRokuId(mappedApps,
                              IF a # Null THEN a ELSE homeScreenActiveId) # Undefined

\* C11: every value reported to the host for ActiveIdentifier, by the get
\* handler or by a poll update, is the numeric id of an entry of the index,
\* and it is the Home entry's numeric id when the get handler finds no
\* active application; it is never a raw id.
C11_ReportedIdInIndex ==
    [][/\ (GetReports \/ PollReports) => hostActiveId' \in IndexIds
       /\ (GetReports /\ devActive = Null)
             => hostActiveId' = Num(hashCode(homeScreenActiveId))]_vars

(***************************************************************************)
(* FairPolling: the accessory is constructed and polls the device while    *)
(* the device's state changes; from some moment on (frozen) the device no  *)
(* longer changes and every query is answered.  The timer keeps firing and *)
(* every query that is sent is settled and its callback run.               *)
(***************************************************************************)
\* from now on the device's state stays as it is and no query fails
Freeze ==
    /\ Ready
    /\ ~frozen
    /\ frozen' = TRUE
    /\ UNCHANGED accVars
    /\ UNCHANGED <<devPower, devActive, hostActive, hostActiveId, infoReq, infoResp,
                   activeReq, activeResp, req, rejections>>

NextPolling ==
    \/ CreateClientInfoFromClient /\ UNCHANGED sessVars /\ SessionFrame
    \/ NewRokuAppMap /\ UNCHANGED sessVars /\ SessionFrame
    \/ ConfigureTelevisionApplicationInputs /\ UNCHANGED sessVars /\ SessionFrame
    \/ FinishConstruction /\ SessionFrame
    \/ PollTick /\ SessionFrame
    \/ InfoResolves /\ SessionFrame
    \/ InfoRejects /\ SessionFrame
    \/ \E isOn \in BOOLEAN : InfoThen(isOn) /\ SessionFrame
    \/ ActiveResolves /\ SessionFrame
    \/ ActiveRejects /\ SessionFrame
    \/ \E app \in ActiveIds : ActiveThen(app) /\ SessionFrame
    \/ \E power \in BOOLEAN, app \in ActiveIds :
          DeviceChanges(power, app) /\ SessionFrame
    \/ Freeze /\ SessionFrame

\* the constructor runs to its end
Constructs ==
    \/ CreateClientInfoFromClient /\ UNCHANGED sessVars /\ SessionFrame
    \/ NewRokuAppMap /\ UNCHANGED sessVars /\ SessionFrame
    \/ ConfigureTelevisionApplicationInputs /\ UNCHANGED sessVars /\ SessionFrame
    \/ FinishConstruction /\ SessionFrame

\* a query in flight is answered, or the then-callback of an answer runs
Settles ==
    \/ InfoResolves /\ SessionFrame
    \/ ActiveResolves /\ SessionFrame
    \/ \E isOn \in BOOLEAN : InfoThen(isOn) /\ SessionFrame
    \/ \E app \in ActiveIds : ActiveThen(app) /\ SessionFrame

\* The timer fires again and again, and what is in flight is settled.  The
\* timer's update waits for room among the queries in flight (CanUpdate), so
\* no query can stay unsettled while others are settled for ever.
FairPolling ==
    /\ InitSession
    /\ [][NextPolling]_vars
    /\ WF_vars(Constructs)
    /\ WF_vars(PollTick /\ SessionFrame)
    /\ WF_vars(Settles)

\* the host's Active and ActiveIdentifier are those of the device
Synced ==
    /\ hostActive = (IF devPower THEN ACTIVE ELSE INACTIVE)
    /\ hostActiveId = Num(IF devActive = Null THEN RefHash(homeScreenActiveId)
                          ELSE RefHash(devActive))

\* C9: once the device no longer changes and every query is answered, the
\* host's Active and ActiveIdentifier eventually equal the device's power
\* state and the numeric id of its active application, and stay so.
C9_PollingSynchronizes ==
    [](frozen => <>[]Synced)

====
